---- MODULE Spec2Model ----
(***************************************************************************)
(* Model of MCRealmsDiscordIntegration: the chained Microsoft / Xbox Live  *)
(* / Minecraft handshake (mcrealms/_mcauth.py), the Realms client          *)
(* (mcrealms/mcrclient.py) and the polling webhook (webhooks/webhook.py).  *)
(* Strings that the code parses are tuples of one-character strings, so    *)
(* that the scraping and splitting are computed, not assumed.              *)
(***************************************************************************)
EXTENDS Integers, Sequences, FiniteSets, TLC

\* ------------------------------------------------------------------ bounds
MaxCycles == 2
MaxPlayers == 3
MaxOther == 1

None == "None"

\* ------------------------------------------------------- string primitives
\* str.index(ch): 1-based position of the first ch, 0 when absent
IndexOf(s, ch) ==
  IF \E i \in 1..Len(s) : s[i] = ch
  THEN CHOOSE i \in 1..Len(s) : s[i] = ch /\ \A k \in 1..(i-1) : s[k] # ch
  ELSE 0

RECURSIVE Split(_, _)
\* str.split(ch): the pieces between the occurrences of ch, empty pieces kept
Split(s, ch) ==
  LET i == IndexOf(s, ch)
  IN IF i = 0 THEN <<s>>
     ELSE <<SubSeq(s, 1, i-1)>> \o Split(SubSeq(s, i+1, Len(s)), ch)

StartsWithAt(text, i, lit) ==
  /\ i + Len(lit) - 1 <= Len(text)
  /\ \A k \in 1..Len(lit) : text[i+k-1] = lit[k]

\* LazyEnd for a greedy group (.+) instead of the lazy one
LazyEndGreedy(text, i, lit, close) ==
  LET s == i + Len(lit)
      ends == {j \in (s+1)..Len(text) :
                 text[j] = close /\ \A k \in s..(j-1) : text[k] # "\n"}
  IN IF ends = {} THEN 0 ELSE CHOOSE j \in ends : \A j2 \in ends : j >= j2

\* end of the lazy group (.+?) followed by close, for a literal found at i; 0 if none
LazyEnd(text, i, lit, close) ==
  LET s == i + Len(lit)
      ends == {j \in (s+1)..Len(text) :
                 text[j] = close /\ \A k \in s..(j-1) : text[k] # "\n"}
  IN IF ends = {} THEN 0 ELSE CHOOSE j \in ends : \A j2 \in ends : j <= j2

\* re.search(lit + '(.+?)' + close, text).group(), None when nothing matches
ReSearch(lit, close, text) ==
  LET starts == {i \in 1..Len(text) :
                   StartsWithAt(text, i, lit) /\ LazyEnd(text, i, lit, close) # 0}
  IN IF starts = {} THEN None
     ELSE LET i == CHOOSE x \in starts : \A y \in starts : x <= y
          IN SubSeq(text, i, LazyEnd(text, i, lit, close))

\* source[source.index(q)+1:-1]
Unquote(source, q) == SubSeq(source, IndexOf(source, q) + 1, Len(source) - 1)

\* ------------------------------------------------------------------ errors
Err(t, a) == [type |-> t, arg |-> a]
NoError == Err(None, None)

\* ------------------------------------------------------- program constants
MICROSOFT_AUTH_DOMAIN == "https://login.live.com"
XBOX_LIVE_AUTH_DOMAIN == "https://user.auth.xboxlive.com"
XBOX_LIVE_XSTS_AUTH_DOMAIN == "https://xsts.auth.xboxlive.com"
MINECRAFT_AUTH_DOMAIN == "https://api.minecraftservices.com"
MOJANG_DOMAIN == "https://api.mojang.com"
MC_REALMS_DOMAIN == "https://pc.realms.minecraft.net"
DISCORD_WEBHOOKS_URL == "DISCORD_WEBHOOKS_URL"
USERNAME == "USERNAME"
SERVER_ID == 7
OtherServerId == SERVER_ID + 1

Stages == <<"Prepare", "IdentityLogin", "BrokerExchange", "BrokerTokenUpgrade", "ServiceLogin">>
StageSet == {Stages[i] : i \in 1..Len(Stages)}


\* ------------------------------------------------------------ return values
Ok(v) == [ok |-> TRUE, err |-> NoError, val |-> v]
Fail(e) == [ok |-> FALSE, err |-> e, val |-> None]

\* an HTTP call either raises (no reply) or returns a reply the code then reads
NetErr == [kind |-> "neterr"]
NotJson == [kind |-> "text"]
Json(p) == [kind |-> "json", payload |-> p]
Page(t) == [kind |-> "page", text |-> t]
Redirect(u) == [kind |-> "redirect", url |-> u]
Has(payload, key) == key \in DOMAIN payload

\* ------------------------------------------------------ stage 1: Prepare
VALUE_LIT == <<"v","a","l","u","e","=","\"">>
URLPOST_LIT == <<"u","r","l","P","o","s","t",":","'">>

PAGE_OK == VALUE_LIT \o <<"f","t","\"",";">> \o URLPOST_LIT \o <<"p","u","'">>
PAGE_TWO == VALUE_LIT \o <<"f","\"",";">> \o VALUE_LIT \o <<"g","\"",";">>
              \o URLPOST_LIT \o <<"p","'">> \o URLPOST_LIT \o <<"q","'">>
PAGE_NO_VALUE == <<"<",">">> \o URLPOST_LIT \o <<"p","u","'">>
PAGE_NO_URLPOST == VALUE_LIT \o <<"f","t","\"">>
PAGE_EMPTY_VALUE == VALUE_LIT \o <<"\"",";">> \o URLPOST_LIT \o <<"p","u","'">>
SFTTAG_ABC == <<"a","b","c","1","2","3">>
URLPOST_XY == <<"h","t","t","p","s",":","/","/","x","/","y">>
\* a page with other text around value="abc123" and urlPost:'https://x/y'
PAGE_ABC == <<"<","i"," ">> \o VALUE_LIT \o SFTTAG_ABC \o <<"\"","/",">",",">>
              \o URLPOST_LIT \o URLPOST_XY \o <<"'",",">>
PrepareReplies ==
  {NetErr, Page(PAGE_OK), Page(PAGE_TWO), Page(PAGE_NO_VALUE), Page(PAGE_NO_URLPOST),
   Page(PAGE_EMPTY_VALUE), Page(PAGE_ABC)}

\* _prepareMicrosoftLogin, given what session.get does
PrepareMicrosoftLogin(reply) ==
  IF reply.kind = "neterr" THEN Fail(Err("ConnectionError", MICROSOFT_AUTH_DOMAIN))
  ELSE LET m1 == ReSearch(VALUE_LIT, "\"", reply.text)
           m2 == ReSearch(URLPOST_LIT, "'", reply.text)
       IN IF m1 = None THEN Fail(Err("Exception", "SFTTagNotFoundError"))
          ELSE IF m2 = None THEN Fail(Err("Exception", "URLPostNotFoundError"))
          ELSE Ok([sFTTag |-> Unquote(m1, "\""), urlPost |-> Unquote(m2, "'")])

\* ------------------------------------------------ stage 2: IdentityLogin
ACCESS_TOKEN == <<"a","c","c","e","s","s","_","t","o","k","e","n">>
URL_OK == <<"h","#">> \o ACCESS_TOKEN \o <<"=","T","1","&","t","t","=","b">>
URL_NO_FRAGMENT == <<"h","?">> \o ACCESS_TOKEN \o <<"=","T","1">>
URL_NO_TOKEN == <<"h","#","e","r","r","=","x">>
URL_BARE_KEY == <<"h","#">> \o ACCESS_TOKEN \o <<"=","T","1","&","k">>
URL_TWO_EQ == <<"h","#">> \o ACCESS_TOKEN \o <<"=","T","=","1">>
URL_EMPTY_FRAGMENT == <<"h","#">>
TOKEN_TYPE == <<"t","o","k","e","n","_","t","y","p","e">>
BEARER == <<"b","e","a","r","e","r">>
\* https://a/b#access_token=T1&token_type=bearer
URL_AB == <<"h","t","t","p","s",":","/","/","a","/","b","#">> \o ACCESS_TOKEN \o <<"=","T","1","&">>
            \o TOKEN_TYPE \o <<"=">> \o BEARER
LoginReplies ==
  {NetErr, Redirect(URL_OK), Redirect(URL_NO_FRAGMENT), Redirect(URL_NO_TOKEN),
   Redirect(URL_BARE_KEY), Redirect(URL_TWO_EQ), Redirect(URL_EMPTY_FRAGMENT), Redirect(URL_AB)}

EmptyDict == [k \in {} |-> None]
DictSet(d, key, val) == [k \in DOMAIN d \cup {key} |-> IF k = key THEN val ELSE d[k]]

RECURSIVE ParamsLoopSkipping(_, _, _)
\* ParamsLoop passing over the segments that are not one key=value pair
ParamsLoopSkipping(paramsList, i, params) ==
  IF i > Len(paramsList) THEN Ok(params)
  ELSE LET kv == Split(paramsList[i], "=")
       IN IF Len(kv) # 2 THEN ParamsLoopSkipping(paramsList, i + 1, params)
          ELSE ParamsLoopSkipping(paramsList, i + 1, DictSet(params, kv[1], kv[2]))

RECURSIVE ParamsLoop(_, _, _)
\* the for loop of _getParamsFromUrl from paramsList[i] on
ParamsLoop(paramsList, i, params) ==
  IF i > Len(paramsList) THEN Ok(params)
  ELSE LET kv == Split(paramsList[i], "=")
       IN IF Len(kv) < 2 THEN Fail(Err("ValueError", "not enough values to unpack"))
          ELSE IF Len(kv) > 2 THEN Fail(Err("ValueError", "too many values to unpack"))
          ELSE ParamsLoop(paramsList, i + 1, DictSet(params, kv[1], kv[2]))

GetParamsFromUrl(url) ==
  LET parts == Split(url, "#")
  IN IF Len(parts) < 2 THEN Fail(Err("IndexError", "list index out of range"))
     ELSE ParamsLoop(Split(parts[2], "&"), 1, EmptyDict)

\* AuthenticateWithMicrosoft reading the token with loginData.get('access_token')
AuthenticateWithMicrosoftLenient(reply) ==
  IF reply.kind = "neterr" THEN Fail(Err("ConnectionError", "authServerUrl"))
  ELSE LET loginData == GetParamsFromUrl(reply.url)
       IN IF ~loginData.ok THEN loginData
          ELSE IF ~Has(loginData.val, ACCESS_TOKEN) THEN Ok(<<>>)
          ELSE Ok(loginData.val[ACCESS_TOKEN])

\* _authenticateWithMicrosoft, given what session.post does
AuthenticateWithMicrosoft(reply) ==
  IF reply.kind = "neterr" THEN Fail(Err("ConnectionError", "authServerUrl"))
  ELSE LET loginData == GetParamsFromUrl(reply.url)
       IN IF ~loginData.ok THEN loginData
          ELSE IF ~Has(loginData.val, ACCESS_TOKEN) THEN Fail(Err("KeyError", "access_token"))
          ELSE Ok(loginData.val[ACCESS_TOKEN])

\* ------------------------------------------------ stage 3: BrokerExchange
XBL_OK == [Token |-> "xbl", DisplayClaims |-> [xui |-> <<[uhs |-> "uhs"]>>]]
XboxReplies ==
  {NetErr, NotJson, Json(XBL_OK),
   Json([DisplayClaims |-> [xui |-> <<[uhs |-> "uhs"]>>]]),
   Json([Token |-> "xbl"]),
   Json([Token |-> "xbl", DisplayClaims |-> [xid |-> "0"]]),
   Json([Token |-> "xbl", DisplayClaims |-> [xui |-> <<>>]]),
   Json([Token |-> "xbl", DisplayClaims |-> [xui |-> <<[gtg |-> "g"]>>]])}

\* _authenticateWithXboxLive, given what session.post does
AuthenticateWithXboxLive(reply) ==
  IF reply.kind = "neterr" THEN Fail(Err("ConnectionError", XBOX_LIVE_AUTH_DOMAIN))
  ELSE IF reply.kind # "json" THEN Fail(Err("JSONDecodeError", "Expecting value"))
  ELSE LET p == reply.payload
       IN IF ~Has(p, "Token") THEN Fail(Err("KeyError", "Token"))
          ELSE IF ~Has(p, "DisplayClaims") THEN Fail(Err("KeyError", "DisplayClaims"))
          ELSE IF ~Has(p.DisplayClaims, "xui") THEN Fail(Err("KeyError", "xui"))
          ELSE IF Len(p.DisplayClaims.xui) = 0
               THEN Fail(Err("IndexError", "list index out of range"))
          ELSE IF ~Has(p.DisplayClaims.xui[1], "uhs") THEN Fail(Err("KeyError", "uhs"))
          ELSE Ok([xboxLiveToken |-> p.Token, uhs |-> p.DisplayClaims.xui[1].uhs])

\* -------------------------------------------- stage 4: BrokerTokenUpgrade
XstsReplies == {NetErr, NotJson, Json([Token |-> "xsts"]), Json([XErr |-> "2148916233"])}

\* _getXstsToken, given what session.post does
GetXstsToken(reply) ==
  IF reply.kind = "neterr" THEN Fail(Err("ConnectionError", XBOX_LIVE_XSTS_AUTH_DOMAIN))
  ELSE IF reply.kind # "json" THEN Fail(Err("JSONDecodeError", "Expecting value"))
  ELSE IF ~Has(reply.payload, "Token") THEN Fail(Err("KeyError", "Token"))
  ELSE Ok(reply.payload.Token)

\* -------------------------------------------------- stage 5: ServiceLogin
MinecraftReplies ==
  {NetErr, NotJson, Json([access_token |-> "mc"]), Json([errorMessage |-> "e"])}

\* _authenticateWithMinecraft, given what session.post does
AuthenticateWithMinecraft(reply) ==
  IF reply.kind = "neterr" THEN Fail(Err("ConnectionError", MINECRAFT_AUTH_DOMAIN))
  ELSE IF reply.kind # "json" THEN Fail(Err("JSONDecodeError", "Expecting value"))
  ELSE IF ~Has(reply.payload, "access_token") THEN Fail(Err("KeyError", "access_token"))
  ELSE Ok(reply.payload.access_token)

\* ------------------------------------------------- directory lookup: getUid
UidReplies == {NetErr, NotJson, Json([id |-> "uid"]), Json([error |-> "NotFound"])}

\* MCAuthenticator.getUid, given what requests.get does
GetUid(reply) ==
  IF reply.kind = "neterr" THEN Fail(Err("ConnectionError", MOJANG_DOMAIN))
  ELSE IF reply.kind # "json" THEN Fail(Err("JSONDecodeError", "Expecting value"))
  ELSE IF ~Has(reply.payload, "id") THEN Fail(Err("KeyError", "id"))
  ELSE Ok(reply.payload.id)


\* ------------------------------------------- directory lookup: getUsername
Names == <<"A", "B", "C">>
PlayerIds == 1..Len(Names)

\* MCAuthenticator.getUsername when the lookup answers: resPayload[0]['name']
GetUsername(uid) == Names[uid]

\* ------------------------------------------------ presence: getPlayersList
PlayerLists == UNION {[1..n -> PlayerIds] : n \in 0..MaxPlayers}
Players(ids) == [i \in 1..Len(ids) |-> [playerId |-> ids[i]]]
\* json.dumps of a player list: the nested list travels as a JSON string
Entry(sid, ids) == [serverId |-> sid, playerList |-> Json(Players(ids))]
BadEntry(sid) == [serverId |-> sid, playerList |-> NotJson]
OtherEntries(k) == [i \in 1..k |-> IF i = 1 THEN BadEntry(OtherServerId)
                                   ELSE Entry(OtherServerId, <<i>>)]
FirstMatch == {<<Entry(SERVER_ID, ids)>> : ids \in PlayerLists} \cup {<<BadEntry(SERVER_ID)>>}
Tails == {<<>>, <<Entry(SERVER_ID, <<1>>)>>, <<Entry(OtherServerId, <<2>>)>>}
ActivityLists ==
  {OtherEntries(k) : k \in 0..MaxOther}
    \cup {OtherEntries(k) \o m \o t : k \in 0..MaxOther, m \in FirstMatch, t \in Tails}
PresenceReplies ==
  {NetErr, NotJson, Json([error |-> "e"])} \cup {Json([lists |-> l]) : l \in ActivityLists}

Returned(names, lk) == [ok |-> TRUE, err |-> NoError, val |-> names, lookups |-> lk]
Raised(e, lk) == [ok |-> FALSE, err |-> e, val |-> <<>>, lookups |-> lk]

\* the list comprehension of getPlayersList: one getPlayerName per player, in list
\* order; the failAt-th lookup raises (0: none does)
ResolveNames(playerList, failAt) ==
  LET ids == [i \in 1..Len(playerList) |-> playerList[i].playerId]
  IN IF failAt \in 1..Len(ids)
     THEN Raised(Err("ConnectionError", MOJANG_DOMAIN), SubSeq(ids, 1, failAt))
     ELSE Returned([i \in 1..Len(ids) |-> GetUsername(ids[i])], ids)

\* ScanActivity using the last entry for targetServerId instead of the first
ScanActivityLast(serverActivityList, i, targetServerId, failAt) ==
  LET matches == {k \in i..Len(serverActivityList) :
                    serverActivityList[k].serverId = targetServerId}
  IN IF matches = {} THEN Returned(<<>>, <<>>)
     ELSE LET serverActivity ==
                serverActivityList[CHOOSE k \in matches : \A k2 \in matches : k >= k2]
          IN IF serverActivity.playerList.kind # "json"
             THEN Raised(Err("JSONDecodeError", "Expecting value"), <<>>)
             ELSE ResolveNames(serverActivity.playerList.payload, failAt)

RECURSIVE ScanActivity(_, _, _, _)
\* the for loop of getPlayersList from serverActivityList[i] on
ScanActivity(serverActivityList, i, targetServerId, failAt) ==
  IF i > Len(serverActivityList) THEN Returned(<<>>, <<>>)
  ELSE LET serverActivity == serverActivityList[i]
       IN IF serverActivity.serverId # targetServerId
          THEN ScanActivity(serverActivityList, i + 1, targetServerId, failAt)
          ELSE IF serverActivity.playerList.kind # "json"
               THEN Raised(Err("JSONDecodeError", "Expecting value"), <<>>)
          ELSE ResolveNames(serverActivity.playerList.payload, failAt)

\* GetPlayersList raising when no entry is for targetServerId
GetPlayersListStrict(reply, targetServerId, failAt) ==
  IF reply.kind # "json" THEN Raised(Err("JSONDecodeError", "Expecting value"), <<>>)
  ELSE IF ~Has(reply.payload, "lists") THEN Raised(Err("KeyError", "lists"), <<>>)
  ELSE IF \A i \in 1..Len(reply.payload.lists) :
            reply.payload.lists[i].serverId # targetServerId
       THEN Raised(Err("PresenceQueryFailed", "no entry"), <<>>)
  ELSE ScanActivity(reply.payload.lists, 1, targetServerId, failAt)

\* getPlayersList after the presence GET has returned reply
GetPlayersList(reply, targetServerId, failAt) ==
  IF reply.kind # "json" THEN Raised(Err("JSONDecodeError", "Expecting value"), <<>>)
  ELSE IF ~Has(reply.payload, "lists") THEN Raised(Err("KeyError", "lists"), <<>>)
  ELSE ScanActivity(reply.payload.lists, 1, targetServerId, failAt)

\* set(list)
ToSet(list) == {list[i] : i \in 1..Len(list)}

\* there is no entry for targetServerId in the reply
NoMatch(reply, targetServerId) ==
  /\ reply.kind = "json" /\ Has(reply.payload, "lists")
  /\ \A i \in 1..Len(reply.payload.lists) : reply.payload.lists[i].serverId # targetServerId

\* Baseline with prevPlayers starting empty instead of seeded
BaselineEmpty(names) == {}

\* webhook.py line 19: prevPlayers = set(getPlayersList(...))
Baseline(names) == ToSet(names)

\* Difference with its operands swapped
DifferenceSwapped(curr, prev) == prev \ curr

\* webhook.py line 24: currPlayers.difference(prevPlayers)
Difference(curr, prev) == curr \ prev

\* Replace with the new result added to the names already known
ReplaceAccumulating(prev, curr) == prev \cup curr

\* Replace with the assignment not made before the for loop runs
ReplaceDeferred(prev, curr) == prev

\* webhook.py line 26: prevPlayers = currPlayers
Replace(prev, curr) == curr

\* AfterPost leaving the for loop after its first iteration
AfterPostEarly(rest) == "sleep"

\* the for loop of lines 28-34 goes on while the set has names left, then line 36
AfterPost(rest) == IF rest = {} THEN "sleep" ELSE "notify"


\* ------------------------------------------------------------------- state
VARIABLES
  pc,                 \* the statement main() is at, or "crashed"
  error,              \* the exception that ended the process, NoError while it runs
  failedAt,           \* the call that raised it
  stageLog,           \* the handshake requests issued so far, in order
  callLog,            \* per request: the locals passed to the call and the locals it bound
  sFTTag, urlPost, msAccessToken, xboxLiveToken, userHash, xstsToken,
  redirectUrl,        \* res.url of the IdentityLogin POST
  page,               \* res.text of the Prepare GET
  loginData,          \* what _getParamsFromUrl returned to _authenticateWithMicrosoft
  mcAccessToken,      \* what authenticate returned
  self,               \* the MCRealmsClient under construction / constructed
  realmsClient,       \* main's reference to it, None until __init__ returns
  res,                \* the presence reply getPlayersList is working on
  activePlayerNames, lookups,
  noEntryMatched,     \* history: the reply this call scanned held no entry for SERVER_ID
  prevPlayers, currPlayers, newlyOnlinePlayers,
  pending,            \* names the for loop has not reached yet
  posted,             \* names the webhook was posted for in this cycle, in order
  queries, cycle, sleeps,
  prevAtCycleStart,   \* history: prevPlayers when the cycle's difference was taken
  precedingResult, latestResult,  \* history: the last two presence results
  dropped,            \* history: names of the result before the latest that the latest lacks
  reappeared          \* history: names this cycle's result has back after such an absence

authVars == <<sFTTag, urlPost, redirectUrl, msAccessToken, xboxLiveToken, userHash, xstsToken, mcAccessToken,
              page, loginData>>
clientVars == <<self, realmsClient>>
queryVars == <<res, activePlayerNames, lookups, noEntryMatched, queries>>
pollVars == <<prevPlayers, currPlayers, newlyOnlinePlayers, pending, posted, cycle, sleeps,
              prevAtCycleStart>>
histVars == <<precedingResult, latestResult, dropped, reappeared>>
vars == <<pc, error, failedAt, stageLog, callLog, authVars, clientVars, queryVars, pollVars, histVars>>

NoReply == [kind |-> "none"]
Unset == <<>>

Init ==
  /\ pc = "Prepare"
  /\ error = NoError
  /\ failedAt = None
  /\ stageLog = <<>>
  /\ callLog = <<>>
  /\ sFTTag = Unset /\ urlPost = Unset /\ redirectUrl = Unset /\ msAccessToken = Unset
  /\ xboxLiveToken = None /\ userHash = None /\ xstsToken = None
  /\ mcAccessToken = None
  /\ page = Unset /\ loginData = EmptyDict
  /\ self = [username |-> USERNAME, accessToken |-> None, uid |-> None]
  /\ realmsClient = None
  /\ res = NoReply
  /\ activePlayerNames = <<>> /\ lookups = <<>> /\ noEntryMatched = FALSE
  /\ prevPlayers = {} /\ currPlayers = {} /\ newlyOnlinePlayers = {}
  /\ pending = {} /\ posted = <<>>
  /\ queries = 0 /\ cycle = 0 /\ sleeps = 0
  /\ prevAtCycleStart = {}
  /\ precedingResult = {} /\ latestResult = {}
  /\ dropped = {} /\ reappeared = {}

\* Raise with the exception of a handshake stage caught around authenticate, so
\* that _authenticate goes on to getUid
RaiseSwallowed(op, e) ==
  /\ pc' = IF op \in StageSet THEN "getUid" ELSE "crashed"
  /\ error' = e /\ failedAt' = op

\* an exception nobody catches: it leaves main() and ends the process
Raise(op, e) == pc' = "crashed" /\ error' = e /\ failedAt' = op
Running == UNCHANGED <<error, failedAt>>

\* NextStage with the call of _authenticateWithMicrosoft left out
NextStageSkipping(stage) ==
  CASE stage = "Prepare" -> "BrokerExchange"
    [] stage = "IdentityLogin" -> "BrokerExchange"
    [] stage = "BrokerExchange" -> "BrokerTokenUpgrade"
    [] stage = "BrokerTokenUpgrade" -> "ServiceLogin"
    [] stage = "ServiceLogin" -> "getUid"

\* authenticate's order of calls (lines 95-106), then _authenticate's getUid
NextStage(stage) ==
  CASE stage = "Prepare" -> "IdentityLogin"
    [] stage = "IdentityLogin" -> "BrokerExchange"
    [] stage = "BrokerExchange" -> "BrokerTokenUpgrade"
    [] stage = "BrokerTokenUpgrade" -> "ServiceLogin"
    [] stage = "ServiceLogin" -> "getUid"

\* StageArgs with the Xbox Live token passed on to the Minecraft login as well
StageArgsReusing(stage) ==
  CASE stage = "Prepare" -> {}
    [] stage = "IdentityLogin" -> {"urlPost", "sFTTag"}
    [] stage = "BrokerExchange" -> {"msAccessToken"}
    [] stage = "BrokerTokenUpgrade" -> {"xboxLiveToken"}
    [] stage = "ServiceLogin" -> {"xstsToken", "userHash", "xboxLiveToken"}

\* the locals authenticate passes to each stage call (lines 95-106)
StageArgs(stage) ==
  CASE stage = "Prepare" -> {}
    [] stage = "IdentityLogin" -> {"urlPost", "sFTTag"}
    [] stage = "BrokerExchange" -> {"msAccessToken"}
    [] stage = "BrokerTokenUpgrade" -> {"xboxLiveToken"}
    [] stage = "ServiceLogin" -> {"xstsToken", "userHash"}

\* the locals authenticate binds to what each stage call returns (lines 95-105)
StageResults(stage) ==
  CASE stage = "Prepare" -> {"sFTTag", "urlPost"}
    [] stage = "IdentityLogin" -> {"msAccessToken"}
    [] stage = "BrokerExchange" -> {"xboxLiveToken", "userHash"}
    [] stage = "BrokerTokenUpgrade" -> {"xstsToken"}
    [] stage = "ServiceLogin" -> {"mcAccessToken"}

\* a stage call is made with its arguments; its results are bound if it returns
Called(stage, returned) ==
  callLog' = Append(callLog, [stage |-> stage, args |-> StageArgs(stage),
                              binds |-> IF returned THEN StageResults(stage) ELSE {}])

\* -------------------------------------------------------------- handshake
Prepare ==
  /\ pc = "Prepare"
  /\ stageLog' = Append(stageLog, "Prepare")
  /\ \E reply \in PrepareReplies :
       LET r == PrepareMicrosoftLogin(reply)
       IN /\ Called("Prepare", r.ok)
          /\ page' = IF reply.kind = "neterr" THEN Unset ELSE reply.text
          /\ IF r.ok
             THEN /\ sFTTag' = r.val.sFTTag /\ urlPost' = r.val.urlPost
                  /\ pc' = NextStage("Prepare") /\ Running
             ELSE /\ Raise("Prepare", r.err) /\ UNCHANGED <<sFTTag, urlPost>>
  /\ UNCHANGED <<redirectUrl, msAccessToken, xboxLiveToken, userHash, xstsToken, mcAccessToken, loginData>>
  /\ UNCHANGED <<clientVars, queryVars, pollVars, histVars>>

IdentityLogin ==
  /\ pc = "IdentityLogin"
  /\ stageLog' = Append(stageLog, "IdentityLogin")
  /\ \E reply \in LoginReplies :
       LET r == AuthenticateWithMicrosoft(reply)
       IN /\ Called("IdentityLogin", r.ok)
          /\ redirectUrl' = IF reply.kind = "neterr" THEN Unset ELSE reply.url
          /\ loginData' = IF reply.kind # "neterr" /\ GetParamsFromUrl(reply.url).ok
                          THEN GetParamsFromUrl(reply.url).val ELSE EmptyDict
          /\ IF r.ok
             THEN /\ msAccessToken' = r.val /\ pc' = NextStage("IdentityLogin") /\ Running
             ELSE /\ Raise("IdentityLogin", r.err) /\ UNCHANGED msAccessToken
  /\ UNCHANGED <<sFTTag, urlPost, xboxLiveToken, userHash, xstsToken, mcAccessToken, page>>
  /\ UNCHANGED <<clientVars, queryVars, pollVars, histVars>>

BrokerExchange ==
  /\ pc = "BrokerExchange"
  /\ stageLog' = Append(stageLog, "BrokerExchange")
  /\ \E reply \in XboxReplies :
       LET r == AuthenticateWithXboxLive(reply)
       IN /\ Called("BrokerExchange", r.ok)
          /\ IF r.ok
             THEN /\ xboxLiveToken' = r.val.xboxLiveToken /\ userHash' = r.val.uhs
                  /\ pc' = NextStage("BrokerExchange") /\ Running
             ELSE /\ Raise("BrokerExchange", r.err) /\ UNCHANGED <<xboxLiveToken, userHash>>
  /\ UNCHANGED <<sFTTag, urlPost, redirectUrl, msAccessToken, xstsToken, mcAccessToken, page, loginData>>
  /\ UNCHANGED <<clientVars, queryVars, pollVars, histVars>>

BrokerTokenUpgrade ==
  /\ pc = "BrokerTokenUpgrade"
  /\ stageLog' = Append(stageLog, "BrokerTokenUpgrade")
  /\ \E reply \in XstsReplies :
       LET r == GetXstsToken(reply)
       IN /\ Called("BrokerTokenUpgrade", r.ok)
          /\ IF r.ok
             THEN /\ xstsToken' = r.val /\ pc' = NextStage("BrokerTokenUpgrade") /\ Running
             ELSE /\ Raise("BrokerTokenUpgrade", r.err) /\ UNCHANGED xstsToken
  /\ UNCHANGED <<sFTTag, urlPost, redirectUrl, msAccessToken, xboxLiveToken, userHash, mcAccessToken>>
  /\ UNCHANGED <<page, loginData>>
  /\ UNCHANGED <<clientVars, queryVars, pollVars, histVars>>

\* the last stage; on success authenticate returns and its locals are gone
ServiceLogin ==
  /\ pc = "ServiceLogin"
  /\ stageLog' = Append(stageLog, "ServiceLogin")
  /\ \E reply \in MinecraftReplies :
       LET r == AuthenticateWithMinecraft(reply)
       IN /\ Called("ServiceLogin", r.ok)
          /\ IF r.ok
             THEN /\ mcAccessToken' = r.val /\ pc' = NextStage("ServiceLogin") /\ Running
                  /\ sFTTag' = Unset /\ urlPost' = Unset /\ msAccessToken' = Unset
                  /\ redirectUrl' = Unset /\ page' = Unset /\ loginData' = EmptyDict
                  /\ xboxLiveToken' = None /\ userHash' = None /\ xstsToken' = None
             ELSE /\ Raise("ServiceLogin", r.err)
                  /\ UNCHANGED authVars
  /\ UNCHANGED <<clientVars, queryVars, pollVars, histVars>>

\* _authenticate's getUid and the rest of MCRealmsClient.__init__
FinishInit ==
  /\ pc = "getUid"
  /\ \E reply \in UidReplies :
       LET r == GetUid(reply)
       IN IF r.ok
          THEN /\ self' = [self EXCEPT !.accessToken = mcAccessToken, !.uid = r.val]
               /\ realmsClient' = "MCRealmsClient"
               /\ pc' = "seedGet" /\ Running
          ELSE /\ Raise("getUid", r.err) /\ UNCHANGED clientVars
  /\ UNCHANGED <<stageLog, callLog, authVars, queryVars, pollVars, histVars>>


\* ------------------------------------------------------------------ poller
\* webhook.py line 19, first half: the presence GET of the seeding call
SeedGet ==
  /\ pc = "seedGet"
  /\ queries' = queries + 1
  /\ \E reply \in PresenceReplies :
       IF reply.kind = "neterr"
       THEN /\ Raise("seed", Err("ConnectionError", MC_REALMS_DOMAIN)) /\ UNCHANGED res
       ELSE /\ res' = reply /\ pc' = "seedResolve" /\ Running
  /\ UNCHANGED <<stageLog, callLog, authVars, clientVars, activePlayerNames, lookups, noEntryMatched,
                 pollVars, histVars>>

\* webhook.py line 19, second half: the reply is scanned, names are resolved and
\* prevPlayers is bound to their set
SeedResolve ==
  /\ pc = "seedResolve"
  /\ res' = NoReply
  /\ \E failAt \in 0..MaxPlayers :
       LET r == GetPlayersList(res, SERVER_ID, failAt)
       IN /\ lookups' = r.lookups
          /\ noEntryMatched' = NoMatch(res, SERVER_ID)
          /\ IF r.ok
             THEN /\ prevPlayers' = Baseline(r.val)
                  /\ latestResult' = ToSet(r.val)
                  /\ pc' = "loopGet" /\ Running
             ELSE /\ Raise("seed", r.err) /\ UNCHANGED <<prevPlayers, latestResult>>
  /\ UNCHANGED <<stageLog, callLog, authVars, clientVars, activePlayerNames, queries, precedingResult>>
  /\ UNCHANGED <<dropped, reappeared>>
  /\ UNCHANGED <<currPlayers, newlyOnlinePlayers, pending, posted, cycle, sleeps,
                 prevAtCycleStart>>

\* webhook.py line 22, first half: a loop iteration starts with the presence GET of
\* a new getPlayersList call
PollGet ==
  /\ pc = "loopGet"
  /\ cycle' = cycle + 1
  /\ queries' = queries + 1
  /\ lookups' = <<>> /\ noEntryMatched' = FALSE
  /\ \E reply \in PresenceReplies :
       IF reply.kind = "neterr"
       THEN /\ Raise("poll", Err("ConnectionError", MC_REALMS_DOMAIN)) /\ UNCHANGED res
       ELSE /\ res' = reply /\ pc' = "loopResolve" /\ Running
  /\ UNCHANGED <<stageLog, callLog, authVars, clientVars, activePlayerNames, histVars>>
  /\ UNCHANGED <<prevPlayers, currPlayers, newlyOnlinePlayers, pending, posted, sleeps,
                 prevAtCycleStart>>

\* PollResolve with a failed query emptying prevPlayers
PollResolveResetting ==
  /\ pc = "loopResolve"
  /\ res' = NoReply
  /\ \E failAt \in 0..MaxPlayers :
       LET r == GetPlayersList(res, SERVER_ID, failAt)
       IN /\ lookups' = r.lookups
          /\ noEntryMatched' = NoMatch(res, SERVER_ID)
          /\ IF r.ok
             THEN /\ activePlayerNames' = r.val
                  /\ currPlayers' = ToSet(r.val)
                  /\ newlyOnlinePlayers' = Difference(ToSet(r.val), prevPlayers)
                  /\ prevAtCycleStart' = prevPlayers
                  /\ prevPlayers' = Replace(prevPlayers, ToSet(r.val))
                  /\ pending' = Difference(ToSet(r.val), prevPlayers)
                  /\ precedingResult' = latestResult
                  /\ latestResult' = ToSet(r.val)
                  /\ dropped' = latestResult \ ToSet(r.val)
                  /\ reappeared' = dropped \cap ToSet(r.val)
                  /\ pc' = AfterPost(Difference(ToSet(r.val), prevPlayers))
                  /\ Running
             ELSE /\ Raise("poll", r.err)
                  /\ prevPlayers' = {}
                  /\ UNCHANGED <<activePlayerNames, currPlayers, newlyOnlinePlayers,
                                 prevAtCycleStart, pending, histVars>>
  /\ UNCHANGED <<stageLog, callLog, authVars, clientVars, queries, posted, cycle, sleeps>>

\* webhook.py lines 22-26: getPlayersList returns, the difference is taken and
\* prevPlayers is replaced; the for loop is entered (or skipped when there is nothing
\* new, and the process sleeps)
PollResolve ==
  /\ pc = "loopResolve"
  /\ res' = NoReply
  /\ \E failAt \in 0..MaxPlayers :
       LET r == GetPlayersList(res, SERVER_ID, failAt)
       IN /\ lookups' = r.lookups
          /\ noEntryMatched' = NoMatch(res, SERVER_ID)
          /\ IF r.ok
             THEN /\ activePlayerNames' = r.val
                  /\ currPlayers' = ToSet(r.val)
                  /\ newlyOnlinePlayers' = Difference(ToSet(r.val), prevPlayers)
                  /\ prevAtCycleStart' = prevPlayers
                  /\ prevPlayers' = Replace(prevPlayers, ToSet(r.val))
                  /\ pending' = Difference(ToSet(r.val), prevPlayers)
                  /\ precedingResult' = latestResult
                  /\ latestResult' = ToSet(r.val)
                  /\ dropped' = latestResult \ ToSet(r.val)
                  /\ reappeared' = dropped \cap ToSet(r.val)
                  /\ pc' = AfterPost(Difference(ToSet(r.val), prevPlayers))
                  /\ Running
             ELSE /\ Raise("poll", r.err)
                  /\ UNCHANGED <<activePlayerNames, currPlayers, newlyOnlinePlayers,
                                 prevAtCycleStart, prevPlayers, pending, histVars>>
  /\ UNCHANGED <<stageLog, callLog, authVars, clientVars, queries, posted, cycle, sleeps>>

\* webhook.py lines 28-34: one iteration of the for loop over the set, in whatever
\* order the set yields; requests.post returns (any status) or raises
Notify ==
  /\ pc = "notify"
  /\ \E playerName \in pending :
       /\ posted' = Append(posted, playerName)
       /\ pending' = pending \ {playerName}
       /\ \/ /\ pc' = AfterPost(pending \ {playerName})
             /\ Running
          \/ Raise("notify", Err("ConnectionError", DISCORD_WEBHOOKS_URL))
  /\ UNCHANGED <<stageLog, callLog, authVars, clientVars, queryVars, histVars>>
  /\ UNCHANGED <<prevPlayers, currPlayers, newlyOnlinePlayers, cycle, sleeps, prevAtCycleStart>>

\* Sleep with the session token renewed before the loop goes round
SleepRefreshing ==
  /\ pc = "sleep"
  /\ cycle < MaxCycles
  /\ sleeps' = sleeps + 1
  /\ pc' = "loopGet"
  /\ self' = [self EXCEPT !.accessToken = "renewed"]
  /\ activePlayerNames' = <<>> /\ lookups' = <<>> /\ noEntryMatched' = FALSE
  /\ currPlayers' = {} /\ newlyOnlinePlayers' = {}
  /\ posted' = <<>> /\ prevAtCycleStart' = {} /\ precedingResult' = {}
  /\ UNCHANGED <<error, failedAt, stageLog, callLog, authVars, realmsClient, res, queries>>
  /\ reappeared' = {}
  /\ UNCHANGED <<prevPlayers, pending, cycle, latestResult, dropped>>

\* webhook.py line 36: time.sleep(60) elapses and the loop goes round. What the
\* finished iteration left in its locals is dead (lines 22-24 assign every one of
\* them before reading it), so the next iteration starts from prevPlayers alone.
Sleep ==
  /\ pc = "sleep"
  /\ cycle < MaxCycles
  /\ sleeps' = sleeps + 1
  /\ pc' = "loopGet"
  /\ activePlayerNames' = <<>> /\ lookups' = <<>> /\ noEntryMatched' = FALSE
  /\ currPlayers' = {} /\ newlyOnlinePlayers' = {}
  /\ posted' = <<>> /\ prevAtCycleStart' = {} /\ precedingResult' = {}
  /\ UNCHANGED <<error, failedAt, stageLog, callLog, authVars, clientVars, res, queries>>
  /\ reappeared' = {}
  /\ UNCHANGED <<prevPlayers, pending, cycle, latestResult, dropped>>

\* webhook.py installs no signal handler and main has no try/except: a SIGINT ends
\* the process with KeyboardInterrupt wherever main is, either between two
\* statements or inside the blocking call it is in (time.sleep at line 36, an HTTP
\* call of requests anywhere else), which is thereby abandoned
Interrupt ==
  /\ pc # "crashed"
  /\ \E at \in {"boundary", "in flight"} :
       /\ pc = "sleep" => at = "boundary"
       /\ Raise("signal", Err("KeyboardInterrupt", at))
  /\ UNCHANGED <<stageLog, callLog, authVars, clientVars, queryVars, pollVars, histVars>>

Next ==
  \/ Prepare \/ IdentityLogin \/ BrokerExchange \/ BrokerTokenUpgrade \/ ServiceLogin
  \/ FinishInit
  \/ SeedGet \/ SeedResolve
  \/ PollGet \/ PollResolve \/ Notify \/ Sleep
  \/ Interrupt

Spec == Init /\ [][Next]_vars


\* ------------------------------------------------------------------ claims
StageIndex(stage) == CHOOSE i \in 1..Len(Stages) : Stages[i] = stage
NoDup(seq) == \A i, j \in 1..Len(seq) : i # j => seq[i] # seq[j]
FindsAccessToken(url) ==
  LET d == GetParamsFromUrl(url) IN d.ok /\ Has(d.val, ACCESS_TOKEN)

\* C1: the handshake requests issued so far are always an initial part of Prepare,
\* IdentityLogin, BrokerExchange, BrokerTokenUpgrade, ServiceLogin (so each stage is
\* issued at most once, none is skipped or retried), and a stage is about to start
\* only when exactly the stages before it have been issued and none has failed.
C1_StagesInOrder ==
  /\ Len(stageLog) <= Len(Stages)
  /\ \A i \in 1..Len(stageLog) : stageLog[i] = Stages[i]
  /\ pc \in StageSet =>
       /\ stageLog = SubSeq(Stages, 1, StageIndex(pc) - 1)
       /\ failedAt = None

C1_Witness == pc = "getUid" /\ stageLog = Stages /\ mcAccessToken = "mc"

\* C2: once stage k has failed the requests issued are exactly those of stages 1..k
\* and the process has stopped; and when the redirect of IdentityLogin yields no
\* access_token, only Prepare and IdentityLogin have been issued.
C2_ShortCircuit ==
  /\ failedAt \in StageSet =>
       /\ stageLog = SubSeq(Stages, 1, StageIndex(failedAt))
       /\ pc = "crashed"
  /\ (redirectUrl # Unset /\ ~FindsAccessToken(redirectUrl)) =>
       stageLog = <<"Prepare", "IdentityLogin">>

C2_Witness ==
  /\ failedAt = "IdentityLogin" /\ error = Err("KeyError", "access_token")
  /\ redirectUrl = URL_NO_TOKEN
  /\ stageLog = <<"Prepare", "IdentityLogin">>

\* the exceptions a stage can end with
StageErrors(stage) ==
  CASE stage = "Prepare" ->
         {PrepareMicrosoftLogin(r).err : r \in {x \in PrepareReplies : ~PrepareMicrosoftLogin(x).ok}}
    [] stage = "IdentityLogin" ->
         {AuthenticateWithMicrosoft(r).err :
            r \in {x \in LoginReplies : ~AuthenticateWithMicrosoft(x).ok}}
    [] stage = "BrokerExchange" ->
         {AuthenticateWithXboxLive(r).err :
            r \in {x \in XboxReplies : ~AuthenticateWithXboxLive(x).ok}}
    [] stage = "BrokerTokenUpgrade" ->
         {GetXstsToken(r).err : r \in {x \in XstsReplies : ~GetXstsToken(x).ok}}
    [] stage = "ServiceLogin" ->
         {AuthenticateWithMinecraft(r).err :
            r \in {x \in MinecraftReplies : ~AuthenticateWithMinecraft(x).ok}}

\* C3: the error that ends a failed handshake identifies the failing stage: no other
\* stage can end with the same error.
C3_ErrorIdentifiesStage ==
  failedAt \in StageSet =>
    \A other \in StageSet \ {failedAt} : error \notin StageErrors(other)

\* C4: after a handshake stage has failed authenticate has returned no token, the
\* client is not constructed, and no presence query and no notification was issued.
C4_NoSessionAfterFailure ==
  failedAt \in StageSet =>
    /\ mcAccessToken = None
    /\ realmsClient = None /\ self.accessToken = None /\ self.uid = None
    /\ queries = 0 /\ cycle = 0 /\ posted = <<>>
    /\ pc = "crashed"

C4_Witness ==
  /\ failedAt = "ServiceLogin" /\ pc = "crashed"
  /\ stageLog = Stages /\ realmsClient = None

\* a poll iteration has taken its difference and is posting, has posted everything,
\* or was ended by a post that raised
CycleDiffTaken == pc \in {"notify", "sleep"} \/ failedAt = "notify"
CycleOver == pc = "sleep" \/ failedAt = "notify"

C6_BaselineSeeding ==
  /\ cycle = 0 => (posted = <<>> /\ pending = {})
  /\ \A i \in 1..Len(posted) :
       posted[i] \in latestResult /\ posted[i] \notin precedingResult

C6_Witness ==
  /\ cycle = 1 /\ precedingResult = {"A"} /\ latestResult = {"A", "B"}
  /\ posted = <<"B">> /\ pc = "sleep"

\* C7: a presence query that fails inside the loop does not end the process.
C7_FailedQueryKeepsPolling == ~(failedAt = "poll" /\ pc = "crashed")

\* C8: the step in which a presence query of the loop fails leaves prevPlayers as it
\* was, and that value is the result of the last query that succeeded.
C8_FailureKeepsBaseline ==
  [][(failedAt' = "poll" /\ failedAt # "poll") =>
       (prevPlayers' = prevPlayers /\ prevPlayers' = latestResult')]_vars

C8_Witness ==
  /\ failedAt = "poll" /\ cycle = 2
  /\ prevPlayers = {"A", "B"} /\ latestResult = {"A", "B"}

\* C9: when the presence reply holds no entry for SERVER_ID, getPlayersList returns
\* the empty list without raising and without any directory lookup.
C9_NoMatchIsEmpty ==
  noEntryMatched =>
    /\ failedAt \notin {"seed", "poll"}
    /\ lookups = <<>>
    /\ latestResult = {}
    /\ cycle >= 1 => (activePlayerNames = <<>> /\ currPlayers = {})

C9_Witness ==
  /\ noEntryMatched /\ pc = "sleep" /\ cycle = 1
  /\ prevAtCycleStart = {"A", "C"} /\ prevPlayers = {}

\* C10: while a presence reply is being worked on no notification is outstanding;
\* a query of the loop is issued only when the reply before it is done with, every
\* name of the cycle before has been posted and every earlier sleep has elapsed;
\* posting and sleeping happen only after the cycle's query is done with.
C10_NoOverlap ==
  /\ res.kind # "none" => pending = {}
  /\ pc = "loopGet" =>
       (pending = {} /\ res.kind = "none" /\ sleeps = cycle /\ queries = cycle + 1)
  /\ pc = "loopResolve" => (sleeps = cycle - 1 /\ queries = cycle + 1)
  /\ pc \in {"notify", "sleep"} => (res.kind = "none" /\ sleeps = cycle - 1)
  /\ pc = "sleep" => (pending = {} /\ ToSet(posted) = newlyOnlinePlayers)

C10_Witness ==
  /\ pc = "loopResolve" /\ cycle = 2 /\ sleeps = 1 /\ queries = 3
  /\ prevPlayers = {"B"} /\ res.kind = "json"


\* the locals of authenticate that carry a value from one stage to a later one
HandshakeFields == {"sFTTag", "urlPost", "msAccessToken", "xboxLiveToken", "userHash", "xstsToken"}
Producers(f) == {i \in 1..Len(callLog) : f \in callLog[i].binds}
Consumers(f) == {i \in 1..Len(callLog) : f \in callLog[i].args}
\* authenticate has returned
HandshakeOver == mcAccessToken # None
FieldsUnset ==
  /\ sFTTag = Unset /\ urlPost = Unset /\ msAccessToken = Unset
  /\ xboxLiveToken = None /\ userHash = None /\ xstsToken = None
HandshakeComplete == Len(callLog) = Len(Stages) /\ callLog[Len(Stages)].binds # {}

\* C11 as stated: every handshake field is bound by one stage call only, is passed
\* to the call right after that one and to no other, and is unset once authenticate
\* has returned.
C11_Original ==
  /\ \A f \in HandshakeFields :
       /\ Cardinality(Producers(f)) <= 1
       /\ Cardinality(Consumers(f)) <= 1
       /\ \A i \in Consumers(f) : Producers(f) = {i - 1}
       /\ HandshakeComplete => (Producers(f) # {} /\ Consumers(f) # {})
  /\ HandshakeOver => FieldsUnset

\* C11 amended: as stated, except that userHash, bound by BrokerExchange, is passed
\* to ServiceLogin, the second call after it, and not to BrokerTokenUpgrade.
C11_Amended ==
  /\ \A f \in HandshakeFields :
       /\ Cardinality(Producers(f)) <= 1
       /\ Cardinality(Consumers(f)) <= 1
       /\ \A i \in Consumers(f) :
            Producers(f) = {IF f = "userHash" THEN i - 2 ELSE i - 1}
       /\ HandshakeComplete => (Producers(f) # {} /\ Consumers(f) # {})
  /\ HandshakeOver => FieldsUnset

C11_Witness ==
  /\ HandshakeComplete /\ pc = "seedGet"
  /\ Producers("userHash") = {3} /\ Consumers("userHash") = {5}
  /\ Consumers("xboxLiveToken") = {4}

\* C12: a presence query is issued only after the five stages ran once each and the
\* client was constructed with the token authenticate returned; and once the client
\* is constructed no step changes its token, account id or name, or issues a
\* handshake request.
C12_SessionCreatedOnce ==
  /\ [](queries > 0 =>
          /\ stageLog = Stages
          /\ realmsClient = "MCRealmsClient"
          /\ self = [username |-> USERNAME, accessToken |-> mcAccessToken, uid |-> "uid"])
  /\ [][realmsClient = "MCRealmsClient" =>
          (self' = self /\ realmsClient' = realmsClient /\ stageLog' = stageLog)]_vars

C12_Witness ==
  /\ cycle = 2 /\ pc = "sleep" /\ queries = 3
  /\ stageLog = Stages /\ self.accessToken = "mc" /\ self.uid = "uid"


\* C13: once a cycle's difference is taken prevPlayers is exactly the set that
\* cycle's query returned, not a union with older results; so the names that were in
\* the result two queries back, absent from the preceding one and are present again
\* are newly online in this cycle, and have all been posted when the cycle sleeps.
C13_BaselineNotAccumulated ==
  /\ CycleDiffTaken =>
       /\ prevPlayers = latestResult
       /\ prevPlayers = ToSet(activePlayerNames)
       /\ reappeared \subseteq newlyOnlinePlayers
  /\ pc = "sleep" => reappeared \subseteq ToSet(posted)

C13_Witness ==
  /\ pc = "sleep" /\ cycle = 2
  /\ reappeared = {"A"} /\ precedingResult = {"B"} /\ latestResult = {"A", "B"}
  /\ posted = <<"A">> /\ prevPlayers = {"A", "B"}


\* C14 as stated: for https://a/b#access_token=T1&token_type=bearer the parameters
\* read from the redirect are access_token -> T1 and token_type -> bearer, and a
\* redirect URL without '#' makes IdentityLogin fail with MalformedRedirect.
C14_ParamsOrMalformedRedirect ==
  /\ redirectUrl = URL_AB =>
       /\ DOMAIN loginData = {ACCESS_TOKEN, TOKEN_TYPE}
       /\ loginData[ACCESS_TOKEN] = <<"T", "1">>
       /\ loginData[TOKEN_TYPE] = BEARER
  /\ (redirectUrl # Unset /\ "#" \notin ToSet(redirectUrl)) =>
       /\ failedAt = "IdentityLogin"
       /\ error.type = "MalformedRedirect"

\* the positions where lit, one character or more, and then close can be read
MatchStarts(text, lit, close) ==
  {i \in 1..Len(text) :
     /\ StartsWithAt(text, i, lit)
     /\ \E j \in (i + Len(lit) + 1)..Len(text) : text[j] = close}
\* the shortest run of one character or more after the leftmost such lit that is
\* followed by close
FirstCapture(text, lit, close) ==
  LET i == CHOOSE x \in MatchStarts(text, lit, close) :
             \A y \in MatchStarts(text, lit, close) : x <= y
      s == i + Len(lit)
      n == CHOOSE k \in 1..Len(text) :
             /\ s + k <= Len(text) /\ text[s + k] = close
             /\ \A m \in 1..(k - 1) : text[s + m] # close
  IN SubSeq(text, s, s + n - 1)

\* C16: when both patterns match the page, sFTTag and urlPost are the captured texts
\* of their first matches (abc123 and https://x/y for the page holding
\* value="abc123" and urlPost:'https://x/y'); when either pattern has no match
\* Prepare fails and no IdentityLogin request is issued.
C16_ScrapeFirstMatch ==
  /\ page # Unset =>
       IF MatchStarts(page, VALUE_LIT, "\"") # {} /\ MatchStarts(page, URLPOST_LIT, "'") # {}
       THEN /\ failedAt # "Prepare"
            /\ sFTTag = FirstCapture(page, VALUE_LIT, "\"")
            /\ urlPost = FirstCapture(page, URLPOST_LIT, "'")
       ELSE /\ failedAt = "Prepare" /\ pc = "crashed"
            /\ error.type = "Exception"
            /\ stageLog = <<"Prepare">>
            /\ sFTTag = Unset /\ urlPost = Unset
  /\ page = PAGE_ABC => (sFTTag = SFTTAG_ABC /\ urlPost = URLPOST_XY)

C16_Witness ==
  /\ page = PAGE_TWO /\ pc = "IdentityLogin"
  /\ sFTTag = <<"f">> /\ urlPost = <<"p">>

\* the number of ch in s
CountOf(s, ch) == Cardinality({i \in 1..Len(s) : s[i] = ch})
\* the &-separated pieces of what follows the first '#' of url (up to a second '#')
Segments(url) == Split(Split(url, "#")[2], "&")
SomeSegmentMalformed(url) ==
  /\ "#" \in ToSet(url)
  /\ \E i \in 1..Len(Segments(url)) : CountOf(Segments(url)[i], "=") # 1

\* C19: a redirect whose fragment has a segment without exactly one '=' (an empty
\* fragment, a bare key, a value holding '=') makes IdentityLogin fail with the
\* unpacking ValueError and stops the handshake there, also when another segment of
\* the fragment is a well-formed access_token pair.
C19_MalformedSegmentAborts ==
  (redirectUrl # Unset /\ SomeSegmentMalformed(redirectUrl)) =>
    /\ failedAt = "IdentityLogin" /\ pc = "crashed"
    /\ error.type = "ValueError"
    /\ msAccessToken = Unset /\ loginData = EmptyDict
    /\ stageLog = <<"Prepare", "IdentityLogin">>

C19_Witness ==
  /\ redirectUrl = URL_BARE_KEY
  /\ failedAt = "IdentityLogin"
  /\ error = Err("ValueError", "not enough values to unpack")
  /\ stageLog = <<"Prepare", "IdentityLogin">>


\* the reply getPlayersList is working on has an entry for SERVER_ID whose player
\* list can be read; MatchIds is the identifier list of the first such entry
MatchIndex(reply) ==
  CHOOSE i \in 1..Len(reply.payload.lists) :
    /\ reply.payload.lists[i].serverId = SERVER_ID
    /\ \A k \in 1..(i - 1) : reply.payload.lists[k].serverId # SERVER_ID
HasMatch(reply) ==
  /\ reply.kind = "json" /\ Has(reply.payload, "lists")
  /\ \E i \in 1..Len(reply.payload.lists) : reply.payload.lists[i].serverId = SERVER_ID
  /\ reply.payload.lists[MatchIndex(reply)].playerList.kind = "json"
MatchIds(reply) ==
  LET pl == reply.payload.lists[MatchIndex(reply)].playerList.payload
  IN [i \in 1..Len(pl) |-> pl[i].playerId]
NamesOf(ids) == [i \in 1..Len(ids) |-> Names[ids[i]]]
InGetPlayersList == pc \in {"seedResolve", "loopResolve"}
IsPrefix(a, b) == Len(a) <= Len(b) /\ a = SubSeq(b, 1, Len(a))

NameSet == {Names[i] : i \in PlayerIds}

\* C18: from the first iteration of the for loop on, also when a post has raised,
\* prevPlayers already is this cycle's result, so it holds the names posted and the
\* names still waiting; the difference a later cycle would take against it holds
\* none of the waiting names while they are present; and no name of the baseline a
\* cycle started from is posted or waiting in that cycle.
C18_BaselineReplacedFirst ==
  /\ (pc = "notify" \/ failedAt = "notify") =>
       /\ prevPlayers = currPlayers /\ prevPlayers = latestResult
       /\ pending \subseteq prevPlayers
       /\ ToSet(posted) \subseteq prevPlayers
       /\ \A later \in SUBSET NameSet :
            pending \subseteq later => Difference(later, prevPlayers) \cap pending = {}
  /\ CycleDiffTaken =>
       /\ ToSet(posted) \cap prevAtCycleStart = {}
       /\ pending \cap prevAtCycleStart = {}

C18_Witness ==
  /\ failedAt = "notify" /\ pc = "crashed"
  /\ prevAtCycleStart = {"A"} /\ prevPlayers = {"A", "B", "C"}
  /\ posted = <<"B">> /\ pending = {"C"}


\* C15 as stated: a cancellation that reaches the process in the poll loop takes
\* effect only between two statements of main or by ending the sleep, never by
\* abandoning an HTTP call that is in flight.
C15_CancelAtBoundary ==
  (failedAt = "signal" /\ cycle >= 1) => error.arg = "boundary"

====
